---- MODULE Spec2Model ----
(***************************************************************************)
(* Model of cli-log (src/cli-log/cli_log.py): a pty session recorder.      *)
(*                                                                         *)
(* Text is a sequence of characters; a character is a pair <<code, stamp>> *)
(* of its code point and the number of the read that delivered it.  The    *)
(* stamp is instrumentation (the program has no such field); every         *)
(* operator that models program code looks at codes only.                  *)
(***************************************************************************)
EXTENDS Integers, Sequences, FiniteSets, TLC

(***************************************************************************)
(* Code points the program names.                                          *)
(***************************************************************************)
BEL == 7
BS == 8
LF == 10
CR == 13
ESC == 27
SPACE == 32
LBRACKET == 91
BACKSLASH == 92
RBRACKET == 93
LetterO == 79
DEL == 127
REPLACEMENT == 65533

Code(e) == e[1]
StampOf(e) == e[2]
Chars(s) == [i \in 1..Len(s) |-> Code(s[i])]
Stamped(t, n) == [i \in 1..Len(t) |-> <<t[i], n>>]
Lit(t) == Stamped(t, 0)

MinOf(S) == CHOOSE x \in S : \A y \in S : x <= y
MaxOf(S) == CHOOSE x \in S : \A y \in S : x >= y

(***************************************************************************)
(* bytes.decode('utf-8', errors='replace') on bytes below 0xE0: an ASCII   *)
(* byte decodes to itself; a lead byte 0xC2..0xDF followed by a            *)
(* continuation byte 0x80..0xBF decodes to one character; any other byte   *)
(* (a lone continuation byte, 0xC0, 0xC1, a lead byte with no continuation *)
(* after it) decodes to U+FFFD.  Three- and four-byte sequences are not in *)
(* the byte sets the model draws from.                                     *)
(***************************************************************************)
DecodeByte(b) == IF b < 128 THEN b ELSE REPLACEMENT
IsLead2(b) == b \in 194..223
IsContinuation(b) == b \in 128..191
RECURSIVE DecodeFrom(_, _)
DecodeFrom(data, i) ==
    IF i > Len(data) THEN <<>>
    ELSE IF IsLead2(data[i]) /\ i < Len(data) /\ IsContinuation(data[i + 1])
    THEN <<(data[i] - 192) * 64 + (data[i + 1] - 128)>> \o DecodeFrom(data, i + 2)
    ELSE <<DecodeByte(data[i])>> \o DecodeFrom(data, i + 1)
Decode(data) == DecodeFrom(data, 1)

(***************************************************************************)
(* Python str primitives, on codes.                                        *)
(***************************************************************************)
Whitespace == {9, 10, 11, 12, 13, 28, 29, 30, 31, 32, 133, 160}

\* first index j >= i whose code is outside S (Len(s)+1 when there is none)
ScanIn(s, i, S) ==
    LET stops == {j \in i..Len(s) : Code(s[j]) \notin S}
    IN IF stops = {} THEN Len(s) + 1 ELSE MinOf(stops)

\* first index j >= i whose code is in S (Len(s)+1 when there is none)
ScanNotIn(s, i, S) ==
    LET stops == {j \in i..Len(s) : Code(s[j]) \in S}
    IN IF stops = {} THEN Len(s) + 1 ELSE MinOf(stops)

\* sub occurs in s at index i
MatchAt(s, sub, i) ==
    /\ i >= 1
    /\ i + Len(sub) - 1 <= Len(s)
    /\ \A k \in 1..Len(sub) : Code(s[i + k - 1]) = Code(sub[k])

\* sub in s
Contains(s, sub) == \E i \in 1..(Len(s) + 1) : MatchAt(s, sub, i)

\* s.endswith(sub)
EndsWith(s, sub) == MatchAt(s, sub, Len(s) - Len(sub) + 1)

\* s.rfind(sub), 1-based; 0 when absent
RFind(s, sub) ==
    LET hits == {i \in 1..(Len(s) + 1) : MatchAt(s, sub, i)}
    IN IF hits = {} THEN 0 ELSE MaxOf(hits)

\* s.count(sub): non-overlapping occurrences, left to right (sub non-empty)
RECURSIVE CountFrom(_, _, _)
CountFrom(s, sub, i) ==
    IF i + Len(sub) - 1 > Len(s) THEN 0
    ELSE IF MatchAt(s, sub, i) THEN 1 + CountFrom(s, sub, i + Len(sub))
    ELSE CountFrom(s, sub, i + 1)
Count(s, sub) == CountFrom(s, sub, 1)

\* s.replace(old, new) (old non-empty)
RECURSIVE ReplaceFrom(_, _, _, _)
ReplaceFrom(s, old, new, i) ==
    IF i > Len(s) THEN <<>>
    ELSE IF MatchAt(s, old, i) THEN new \o ReplaceFrom(s, old, new, i + Len(old))
    ELSE <<s[i]>> \o ReplaceFrom(s, old, new, i + 1)
Replace(s, old, new) == ReplaceFrom(s, old, new, 1)

\* s.strip()
PyStrip(s) ==
    LET solid == {i \in 1..Len(s) : Code(s[i]) \notin Whitespace}
    IN IF solid = {} THEN <<>> ELSE SubSeq(s, MinOf(solid), MaxOf(solid))

(***************************************************************************)
(* strip_ansi_codes: re.sub of the alternation of seven patterns.  Each    *)
(* Match operator gives the index after the match starting at i, or 0.     *)
(* The classes of each pattern are disjoint from what follows them, so the *)
(* greedy scan is the only match the engine can find.                      *)
(***************************************************************************)
CodeAt(s, i) == IF i >= 1 /\ i <= Len(s) THEN Code(s[i]) ELSE -1

AlnumUpper == (65..90) \cup (48..57)
SingleFinals == {62, 61, 77, 78, 79, 80, 86, 88, 99, 109, 110, 111, 55, 56}
StringIntroducers == {80, 88, 94, 95}

MatchCSI(s, i) ==
    IF CodeAt(s, i) = ESC /\ CodeAt(s, i + 1) = LBRACKET
    THEN LET j == ScanIn(s, i + 2, 48..63)
             k == ScanIn(s, j, 32..47)
         IN IF CodeAt(s, k) \in 64..126 THEN k + 1 ELSE 0
    ELSE 0

MatchOSC(s, i) ==
    IF CodeAt(s, i) = ESC /\ CodeAt(s, i + 1) = RBRACKET
    THEN LET j == ScanNotIn(s, i + 2, {BEL, ESC})
         IN IF CodeAt(s, j) = BEL THEN j + 1
            ELSE IF CodeAt(s, j) = ESC /\ CodeAt(s, j + 1) = BACKSLASH THEN j + 2
            ELSE 0
    ELSE 0

MatchCharset(s, i) ==
    IF /\ CodeAt(s, i) = ESC
       /\ CodeAt(s, i + 1) \in {40, 41}
       /\ CodeAt(s, i + 2) \in AlnumUpper
    THEN i + 3 ELSE 0

MatchSS3(s, i) ==
    IF /\ CodeAt(s, i) = ESC
       /\ CodeAt(s, i + 1) = LetterO
       /\ CodeAt(s, i + 2) \in AlnumUpper
    THEN i + 3 ELSE 0

MatchSingle(s, i) ==
    IF CodeAt(s, i) = ESC /\ CodeAt(s, i + 1) \in SingleFinals
    THEN i + 2 ELSE 0

MatchDCS(s, i) ==
    IF CodeAt(s, i) = ESC /\ CodeAt(s, i + 1) \in StringIntroducers
    THEN LET j == ScanNotIn(s, i + 2, {ESC})
         IN IF CodeAt(s, j) = ESC /\ CodeAt(s, j + 1) = BACKSLASH THEN j + 2
            ELSE 0
    ELSE 0

MatchRIS(s, i) ==
    IF CodeAt(s, i) = ESC /\ CodeAt(s, i + 1) = 99 THEN i + 2 ELSE 0

\* the alternation: the first pattern, in the order of the list, that matches at i
MatchEnd(s, i) ==
    IF MatchCSI(s, i) > 0 THEN MatchCSI(s, i)
    ELSE IF MatchOSC(s, i) > 0 THEN MatchOSC(s, i)
    ELSE IF MatchCharset(s, i) > 0 THEN MatchCharset(s, i)
    ELSE IF MatchSS3(s, i) > 0 THEN MatchSS3(s, i)
    ELSE IF MatchSingle(s, i) > 0 THEN MatchSingle(s, i)
    ELSE IF MatchDCS(s, i) > 0 THEN MatchDCS(s, i)
    ELSE MatchRIS(s, i)

RECURSIVE StripFrom(_, _)
StripFrom(s, i) ==
    IF i > Len(s) THEN <<>>
    ELSE IF MatchEnd(s, i) > 0 THEN StripFrom(s, MatchEnd(s, i))
    ELSE <<s[i]>> \o StripFrom(s, i + 1)

strip_ansi_codes(text) == StripFrom(text, 1)

(***************************************************************************)
(* clean_user_input: strip_ansi_codes, then delete the listed control      *)
(* characters (every C0 code but TAB, LF and CR, and DEL).                 *)
(***************************************************************************)
control_chars_to_remove ==
    {DEL, BS, ESC} \cup (0..7) \cup {11, 12} \cup (14..26) \cup (28..31)

NotControl(e) == Code(e) \notin control_chars_to_remove

clean_user_input(text) == SelectSeq(strip_ansi_codes(text), NotControl)

(***************************************************************************)
(* is_incomplete_sequence.  `$' matches at the end of the text and before  *)
(* a newline that ends the text.                                           *)
(***************************************************************************)
AtDollar(s, j) == j = Len(s) + 1 \/ (j = Len(s) /\ CodeAt(s, j) = LF)

is_incomplete_sequence(text) ==
    \/ EndsWith(text, Lit(<<ESC>>))
    \/ \E i \in 1..Len(text) :
          /\ CodeAt(text, i) = ESC
          /\ CodeAt(text, i + 1) = LBRACKET
          /\ AtDollar(text, ScanIn(text, i + 2, (48..57) \cup {59}))
    \/ \E i \in 1..Len(text) :
          /\ CodeAt(text, i) = ESC
          /\ CodeAt(text, i + 1) = LetterO
          /\ AtDollar(text, i + 2)
    \/ /\ \E i \in 1..Len(text) :
             /\ CodeAt(text, i) = ESC
             /\ CodeAt(text, i + 1) = RBRACKET
             /\ ScanNotIn(text, i + 2, {BEL, ESC}) = Len(text) + 1
       /\ ~EndsWith(text, Lit(<<BEL>>))

(***************************************************************************)
(* is_echo_of_input                                                        *)
(***************************************************************************)
PromptRepl == Lit(<<62, 62, 62>>)
ShellPrompts == <<Lit(<<36, 32>>), Lit(<<35, 32>>), Lit(<<62, 32>>)>>
StripPrompts ==
    <<Lit(<<62, 62, 62, 32>>), Lit(<<46, 46, 46, 32>>),
      Lit(<<36, 32>>), Lit(<<35, 32>>), Lit(<<62, 32>>)>>
EchoFragmentLimit == 100

RECURSIVE ReplaceAll(_, _, _)
ReplaceAll(s, prompts, k) ==
    IF k > Len(prompts) THEN s
    ELSE ReplaceAll(Replace(s, prompts[k], Lit(<<SPACE>>)), prompts, k + 1)

is_echo_of_input(output_line, current_input) ==
    \/ Count(output_line, PromptRepl) > 1
    \/ /\ Contains(output_line, PromptRepl)
       /\ LET last == RFind(output_line, PromptRepl)
              after_prompt == PyStrip(SubSeq(output_line, last + 3, Len(output_line)))
          IN /\ Len(after_prompt) < EchoFragmentLimit
             /\ Contains(SubSeq(output_line, 1, last - 1), PromptRepl)
    \/ \E p \in 1..Len(ShellPrompts) :
          /\ Contains(output_line, ShellPrompts[p])
          /\ Count(output_line, ShellPrompts[p]) > 1
    \/ LET cleaned_output == ReplaceAll(output_line, StripPrompts, 1)
           clean_input == PyStrip(current_input)
       IN /\ Len(current_input) > 0
          /\ Len(clean_input) > 0
          /\ \/ Contains(cleaned_output, clean_input)
             \/ Contains(clean_input, PyStrip(cleaned_output))

(***************************************************************************)
(* Line reconstruction: buf.replace('\r', '\n').split('\n').               *)
(***************************************************************************)
Terminators == {LF, CR}
TermSet(buf) == {i \in 1..Len(buf) : Code(buf[i]) \in Terminators}
HasTerminator(buf) == TermSet(buf) # {}
NumTerms(buf) == Cardinality(TermSet(buf))
NthTerm(buf, n) ==
    CHOOSE i \in TermSet(buf) : Cardinality({j \in TermSet(buf) : j <= i}) = n
LineStart(buf, n) == IF n = 1 THEN 1 ELSE NthTerm(buf, n - 1) + 1
\* lines[n - 1] for n <= NumTerms(buf): a complete line
Line(buf, n) == SubSeq(buf, LineStart(buf, n), NthTerm(buf, n) - 1)
\* lines[-1]: the incomplete line
LastLine(buf) ==
    SubSeq(buf, IF TermSet(buf) = {} THEN 1 ELSE MaxOf(TermSet(buf)) + 1, Len(buf))

(***************************************************************************)
(* A transcript entry: the tag and the text written, and (instrumentation) *)
(* the first and last read that delivered a byte of the line, terminator   *)
(* included.                                                               *)
(***************************************************************************)
StampsOf(s) == {StampOf(s[i]) : i \in 1..Len(s)}
Entry(tag, text, bytes) ==
    [tag |-> tag, text |-> Chars(text),
     first |-> MinOf(StampsOf(bytes)), last |-> MaxOf(StampsOf(bytes))]
\* the bytes of complete line n, with its terminator
LineBytes(buf, n) == SubSeq(buf, LineStart(buf, n), NthTerm(buf, n))

\* lines 274-276, one line: "[USER INPUT] {line}" when line.strip()
InputLineEntries(buf, n) ==
    IF PyStrip(Line(buf, n)) # <<>>
    THEN <<Entry("USER INPUT", Line(buf, n), LineBytes(buf, n))>>
    ELSE <<>>

\* lines 106-109, one line: "[OUTPUT] {stripped_line}" unless empty or echo
OutputLineEntries(buf, n, current_input) ==
    LET stripped_line == PyStrip(Line(buf, n))
    IN IF stripped_line # <<>> /\ ~is_echo_of_input(stripped_line, current_input)
       THEN <<Entry("OUTPUT", stripped_line, LineBytes(buf, n))>>
       ELSE <<>>

(***************************************************************************)
(* Wait statuses, as os.waitpid reports them.                              *)
(***************************************************************************)
NoStatus == -1
WIFEXITED(st) == st % 128 = 0
WEXITSTATUS(st) == (st \div 256) % 256
SignalFallbackCode == 1
UncaughtExceptionCode == 1
ExitCodeOf(st) == IF WIFEXITED(st) THEN WEXITSTATUS(st) ELSE SignalFallbackCode
\* exit 0, exit 3, killed by SIGINT
ExitStatuses == {0, 768, 2}

(***************************************************************************)
(* Bounds of the model and the chunks the environment can deliver.         *)
(***************************************************************************)
MaxReads == 2
MaxInterrupts == 1
RawLimit == 50

\* "a", "a\r", "a\r" ESC, "[A"
InChunks == {<<97>>, <<97, 13>>, <<97, 13, 27>>, <<91, 65>>}
\* "a", "a\r\n", ESC "["
OutChunks == {<<97>>, <<97, 13, 10>>, <<27, 91>>}

VARIABLES
    pc,                 \* position of the parent process in main()
    isatty,             \* sys.stdin.isatty()
    old_tty,            \* "None" or "saved"
    child_exit_status,  \* NoStatus or a wait status
    input_buffer,
    output_buffer,      \* output_buffer['data']
    current_input_line, \* current_input_line['data']
    raw_input_buffer,
    r,                  \* what select reported ready
    data,               \* the bytes of the read being handled
    ret,                \* caller of read_and_relay_output: "loop" or "drain"
    k,                  \* complete lines already handled by the running for loop
    poll_status,        \* status returned by the non-blocking waitpid
    log,                \* transcript entries written (log_file.write)
    flushed,            \* number of entries covered by the last log_file.flush
    footer,             \* exit codes written as the footer
    stdin_read,         \* chunks read from standard input
    to_master,          \* chunks written to the pty master
    master_read,        \* chunks read from the pty master
    to_stdout,          \* chunks written to standard output
    write_errors,       \* os.write(master_fd, data) calls that raised
    child,              \* "running", "zombie" (exited, not waited for), "reaped"
    child_status,       \* the wait status of the child once it exited
    sigints,            \* SIGINTs delivered to the child by os.kill
    stray_kills,        \* os.kill calls made after the child was reaped
    interrupts,         \* KeyboardInterrupts raised in the parent
    winch_errors,       \* exceptions raised by handle_winch in the loop
    tty_mode,           \* "orig" or "raw"
    restores,           \* termios.tcsetattr calls in the teardown
    master_open,        \* the pty master handle is open
    blocking_waits,     \* os.waitpid(pid, 0) calls
    process_exit,       \* NoStatus while main() runs, then the exit code
    feed                \* the two relays of SpecFeed (unused by Spec)

vars == <<pc, isatty, old_tty, child_exit_status, input_buffer, output_buffer,
          current_input_line, raw_input_buffer, r, data, ret, k, poll_status,
          log, flushed, footer, stdin_read, to_master, master_read, to_stdout,
          write_errors, child, child_status, sigints, stray_kills, interrupts,
          winch_errors, tty_mode, restores, master_open, blocking_waits, process_exit, feed>>

fixedVars == <<isatty, feed>>
bufVars == <<input_buffer, output_buffer, current_input_line, raw_input_buffer>>
localVars == <<r, data, ret, k, poll_status>>
progVars == <<old_tty, child_exit_status, bufVars, localVars>>
logVars == <<log, flushed, footer>>
ioVars == <<stdin_read, to_master, master_read, to_stdout, write_errors>>
childVars == <<child, child_status, sigints, stray_kills>>
sigVars == <<interrupts, winch_errors>>
ttyVars == <<tty_mode, restores>>
endVars == <<master_open, blocking_waits, process_exit>>

\* number of the current read, the stamp of its bytes
nreads == Len(stdin_read) + Len(master_read)
\* data.decode('utf-8', errors='replace')
decoded_data == Stamped(Decode(data), nreads)

FeedOff == [phase |-> "off"]

\* the parent process at line 198, the child forked and running
InitRelay ==
    /\ pc = "save_tty"
    /\ old_tty = "None"
    /\ child_exit_status = NoStatus
    /\ input_buffer = <<>>
    /\ output_buffer = <<>>
    /\ current_input_line = <<>>
    /\ raw_input_buffer = <<>>
    /\ r = {}
    /\ data = <<>>
    /\ ret = "loop"
    /\ k = 0
    /\ poll_status = NoStatus
    /\ log = <<>>
    /\ flushed = 0
    /\ footer = <<>>
    /\ stdin_read = <<>>
    /\ to_master = <<>>
    /\ master_read = <<>>
    /\ to_stdout = <<>>
    /\ write_errors = 0
    /\ child = "running"
    /\ child_status = NoStatus
    /\ sigints = 0
    /\ stray_kills = 0
    /\ interrupts = 0
    /\ winch_errors = 0
    /\ tty_mode = "orig"
    /\ restores = 0
    /\ master_open = TRUE
    /\ blocking_waits = 0
    /\ process_exit = NoStatus

Init ==
    /\ InitRelay
    /\ isatty \in BOOLEAN
    /\ feed = FeedOff

(***************************************************************************)
(* Before the loop.                                                        *)
(***************************************************************************)
\* lines 198-200
SaveTty ==
    /\ pc = "save_tty"
    /\ old_tty' = IF isatty THEN "saved" ELSE "None"
    /\ pc' = "setraw"
    /\ UNCHANGED <<fixedVars, child_exit_status, bufVars, localVars, logVars, ioVars,
                   childVars, sigVars, ttyVars, endVars>>

\* lines 208-218
SetRaw ==
    /\ pc = "setraw"
    /\ tty_mode' = IF isatty THEN "raw" ELSE tty_mode
    /\ pc' = "select"
    /\ UNCHANGED <<fixedVars, progVars, logVars, ioVars, childVars, sigVars,
                   restores, endVars>>

(***************************************************************************)
(* The environment: the child exits on its own at any time.  Its wait      *)
(* status is drawn when waitpid first reports it.                          *)
(***************************************************************************)
ChildExit ==
    /\ child = "running"
    /\ process_exit = NoStatus
    /\ child' = "zombie"
    /\ UNCHANGED <<pc, fixedVars, progVars, logVars, ioVars, child_status, sigints,
                   stray_kills, sigVars, ttyVars, endVars>>

(***************************************************************************)
(* The relay loop, lines 221-299.  A local that the code will not read     *)
(* again before assigning it is reset, so that states differing only in    *)
(* dead locals are one state.                                              *)
(***************************************************************************)
\* the environment delivers at most MaxReads chunks, on either handle
StdinHasData == Len(stdin_read) + Len(master_read) < MaxReads
PtyHasData == Len(stdin_read) + Len(master_read) < MaxReads
\* no process holds the slave side once the child is gone: writes fail
SlaveClosed == child # "running"

\* where line 281 leads
AtMasterCheck(ready) == IF "master" \in ready THEN "out_read" ELSE "poll"

\* line 229 as a break: the end of standard input ends the relay
AfterEmptyInput_Break(ready) == "finally"

\* line 229 with data == b'': the input branch is skipped
AfterEmptyInput(ready) == AtMasterCheck(ready)

DeadLocals ==
    /\ r' = {}
    /\ data' = <<>>
    /\ ret' = "loop"
    /\ k' = 0
    /\ poll_status' = NoStatus

\* line 224: the handles select may report; the master is readable when it
\* has data and when the slave side was closed, by the child's exit or by the
\* child itself
Select ==
    /\ pc = "select"
    /\ \E ready \in SUBSET {"stdin", "master"} :
          /\ pc' = IF "stdin" \in ready THEN "in_read" ELSE AtMasterCheck(ready)
          /\ r' = IF "stdin" \in ready THEN ready \ {"stdin"} ELSE {}
    /\ UNCHANGED <<fixedVars, old_tty, child_exit_status, bufVars, data, ret, k,
                   poll_status, logVars, ioVars, childVars, sigVars, ttyVars,
                   endVars>>

\* lines 228-229: a chunk, or b'' at end of input
InRead ==
    /\ pc = "in_read"
    /\ IF StdinHasData
       THEN /\ data' \in InChunks
            /\ stdin_read' = Append(stdin_read, data')
            /\ pc' = "in_write"
            /\ r' = r
       ELSE /\ data' = <<>>
            /\ stdin_read' = stdin_read
            /\ pc' = AfterEmptyInput(r)
            /\ r' = {}
    /\ UNCHANGED <<fixedVars, old_tty, child_exit_status, bufVars, ret, k, poll_status,
                   logVars, to_master, master_read, to_stdout, write_errors, childVars,
                   sigVars, ttyVars, endVars>>

\* the bytes line 230 hands to os.write
ForwardedInput == data

\* line 230: os.write(master_fd, data)
InWrite ==
    /\ pc = "in_write"
    /\ to_master' = Append(to_master, ForwardedInput)
    /\ pc' = "in_buffer"
    /\ UNCHANGED <<fixedVars, progVars, logVars, stdin_read, master_read, to_stdout,
                   write_errors, childVars, sigVars, ttyVars, endVars>>

\* line 230 raising OSError (EIO: no slave left), caught at line 298: break
InWriteFails ==
    /\ pc = "in_write"
    /\ SlaveClosed
    /\ write_errors' = write_errors + 1
    /\ pc' = "finally"
    /\ DeadLocals
    /\ UNCHANGED <<fixedVars, old_tty, child_exit_status, bufVars, logVars, stdin_read,
                   to_master, master_read, to_stdout, childVars, sigVars, ttyVars,
                   endVars>>

\* lines 232-233
InBuffer ==
    /\ pc = "in_buffer"
    /\ raw_input_buffer' = raw_input_buffer \o decoded_data
    /\ pc' = "in_process"
    /\ UNCHANGED <<fixedVars, old_tty, child_exit_status, input_buffer, output_buffer,
                   current_input_line, localVars, logVars, ioVars, childVars,
                   sigVars, ttyVars, endVars>>

\* lines 251-254: the fragment is carried to the next read
HeldBack(raw) == is_incomplete_sequence(raw) /\ Len(raw) < RawLimit
\* lines 258-259
CleanInput(raw) == clean_user_input(strip_ansi_codes(raw))

\* lines 251-254, continue
InHold ==
    /\ pc = "in_process"
    /\ HeldBack(raw_input_buffer)
    /\ pc' = "select"
    /\ DeadLocals
    /\ UNCHANGED <<fixedVars, old_tty, child_exit_status, bufVars, logVars, ioVars,
                   childVars, sigVars, ttyVars, endVars>>

\* lines 251-263
InProcess ==
    /\ pc = "in_process"
    /\ ~HeldBack(raw_input_buffer)
    /\ input_buffer' = input_buffer \o CleanInput(raw_input_buffer)
    /\ pc' = "in_track"
    /\ UNCHANGED <<fixedVars, old_tty, child_exit_status, output_buffer,
                   current_input_line, raw_input_buffer, localVars, logVars,
                   ioVars, childVars, sigVars, ttyVars, endVars>>

\* line 264
InTrack ==
    /\ pc = "in_track"
    /\ current_input_line' = current_input_line \o CleanInput(raw_input_buffer)
    /\ pc' = "in_clear"
    /\ UNCHANGED <<fixedVars, old_tty, child_exit_status, input_buffer, output_buffer,
                   raw_input_buffer, localVars, logVars, ioVars, childVars,
                   sigVars, ttyVars, endVars>>

\* line 270: what is searched for a line terminator
EnterPressed == HasTerminator(decoded_data)

\* lines 267-270
InClear ==
    /\ pc = "in_clear"
    /\ raw_input_buffer' = <<>>
    /\ data' = <<>>
    /\ IF EnterPressed
       THEN pc' = "in_lines" /\ r' = r
       ELSE pc' = AtMasterCheck(r) /\ r' = {}
    /\ UNCHANGED <<fixedVars, old_tty, child_exit_status, input_buffer, output_buffer,
                   current_input_line, ret, k, poll_status, logVars, ioVars,
                   childVars, sigVars, ttyVars, endVars>>

\* lines 273-277: one pass of the for loop, then the remainder is kept
InLines ==
    /\ pc = "in_lines"
    /\ IF k < NumTerms(input_buffer)
       THEN /\ log' = log \o InputLineEntries(input_buffer, k + 1)
            /\ k' = k + 1
            /\ input_buffer' = input_buffer
            /\ pc' = pc
       ELSE /\ log' = log
            /\ k' = 0
            /\ input_buffer' = LastLine(input_buffer)
            /\ pc' = "in_reset"
    /\ UNCHANGED <<fixedVars, old_tty, child_exit_status, output_buffer,
                   current_input_line, raw_input_buffer, r, data, ret, poll_status,
                   flushed, footer, ioVars, childVars, sigVars, ttyVars,
                   endVars>>

\* line 278
InReset ==
    /\ pc = "in_reset"
    /\ current_input_line' = input_buffer
    /\ pc' = "in_flush"
    /\ UNCHANGED <<fixedVars, old_tty, child_exit_status, input_buffer, output_buffer,
                   raw_input_buffer, localVars, logVars, ioVars, childVars,
                   sigVars, ttyVars, endVars>>

\* line 279
InFlush ==
    /\ pc = "in_flush"
    /\ flushed' = Len(log)
    /\ pc' = AtMasterCheck(r)
    /\ r' = {}
    /\ UNCHANGED <<fixedVars, old_tty, child_exit_status, bufVars, data, ret, k,
                   poll_status, log, footer, ioVars, childVars, sigVars,
                   ttyVars, endVars>>

(***************************************************************************)
(* read_and_relay_output, lines 91-115, called from line 283 (ret = "loop") *)
(* and from line 290 (ret = "drain").                                      *)
(***************************************************************************)
\* the call returned True
ReturnTrue == IF ret = "loop" THEN "poll" ELSE "out_read"
\* the call returned False: break at line 284, or the end of the drain
ReturnFalse == IF ret = "loop" THEN "finally" ELSE "set_status"

\* line 94 returning data
OutRead ==
    /\ pc = "out_read"
    /\ PtyHasData
    /\ data' \in OutChunks
    /\ master_read' = Append(master_read, data')
    /\ pc' = "out_write"
    /\ r' = {}
    /\ UNCHANGED <<fixedVars, old_tty, child_exit_status, bufVars, ret, k, poll_status,
                   logVars, stdin_read, to_master, to_stdout, write_errors, childVars,
                   sigVars, ttyVars, endVars>>

\* line 94 returning b'' or raising OSError (lines 113-115): the slave side
\* is closed
OutReadEnds ==
    /\ pc = "out_read"
    /\ pc' = ReturnFalse
    /\ r' = {}
    /\ ret' = "loop"
    /\ UNCHANGED <<fixedVars, old_tty, child_exit_status, bufVars, data, k,
                   poll_status, logVars, ioVars, childVars, sigVars, ttyVars,
                   endVars>>

\* line 94 called from the drain of line 290, which asks select nothing: with
\* no data in the pty and the slave side still held open by another process
\* (a background job of the child) os.read does not return
OutReadBlocks ==
    /\ pc = "out_read"
    /\ ret = "drain"
    /\ pc' = "blocked"
    /\ UNCHANGED <<fixedVars, progVars, logVars, ioVars, childVars, sigVars, ttyVars,
                   endVars>>

\* the suspended os.read of line 94 is about to return: data arrived, or the
\* last holder of the slave side closed it
OutReadResumes ==
    /\ pc = "blocked"
    /\ pc' = "out_read"
    /\ UNCHANGED <<fixedVars, progVars, logVars, ioVars, childVars, sigVars, ttyVars,
                   endVars>>

\* the bytes line 97 hands to os.write
ForwardedOutput == data

\* lines 97-98
OutWrite ==
    /\ pc = "out_write"
    /\ to_stdout' = Append(to_stdout, ForwardedOutput)
    /\ pc' = "out_buffer"
    /\ UNCHANGED <<fixedVars, progVars, logVars, stdin_read, to_master, master_read,
                   write_errors, childVars, sigVars, ttyVars, endVars>>

\* line 100
CleanOutput(decoded) == strip_ansi_codes(decoded)

\* lines 100-104
OutBuffer ==
    /\ pc = "out_buffer"
    /\ output_buffer' = output_buffer \o CleanOutput(decoded_data)
    /\ pc' = IF HasTerminator(output_buffer') THEN "out_lines" ELSE ReturnTrue
    /\ data' = <<>>
    /\ UNCHANGED <<fixedVars, old_tty, child_exit_status, input_buffer,
                   current_input_line, raw_input_buffer, r, ret, k, poll_status,
                   logVars, ioVars, childVars, sigVars, ttyVars, endVars>>

\* lines 105-110: one pass of the for loop, then the remainder is kept
OutLines ==
    /\ pc = "out_lines"
    /\ IF k < NumTerms(output_buffer)
       THEN /\ log' = log \o OutputLineEntries(output_buffer, k + 1, current_input_line)
            /\ k' = k + 1
            /\ output_buffer' = output_buffer
            /\ pc' = pc
       ELSE /\ log' = log
            /\ k' = 0
            /\ output_buffer' = LastLine(output_buffer)
            /\ pc' = "out_flush"
    /\ UNCHANGED <<fixedVars, old_tty, child_exit_status, input_buffer,
                   current_input_line, raw_input_buffer, r, data, ret, poll_status,
                   flushed, footer, ioVars, childVars, sigVars, ttyVars,
                   endVars>>

\* lines 111-112
OutFlush ==
    /\ pc = "out_flush"
    /\ flushed' = Len(log)
    /\ pc' = ReturnTrue
    /\ UNCHANGED <<fixedVars, progVars, log, footer, ioVars, childVars, sigVars,
                   ttyVars, endVars>>

(***************************************************************************)
(* Lines 286-293: the non-blocking poll, the drain, the status.            *)
(***************************************************************************)
\* lines 287-288, child still running: next iteration
PollRunning ==
    /\ pc = "poll"
    /\ child = "running"
    /\ pc' = "select"
    /\ UNCHANGED <<fixedVars, progVars, logVars, ioVars, childVars, sigVars,
                   ttyVars, endVars>>

\* lines 287-290, child exited: it is reaped and the drain begins
PollExited ==
    /\ pc = "poll"
    /\ child = "zombie"
    /\ child' = "reaped"
    /\ child_status' \in ExitStatuses
    /\ poll_status' = child_status'
    /\ ret' = "drain"
    /\ pc' = "out_read"
    /\ UNCHANGED <<fixedVars, old_tty, child_exit_status, bufVars, r, data, k,
                   logVars, ioVars, sigints, stray_kills, sigVars, ttyVars,
                   endVars>>

\* line 287 raising ChildProcessError (no such child), caught at line 298: break
PollFails ==
    /\ pc = "poll"
    /\ child = "reaped"
    /\ pc' = "finally"
    /\ UNCHANGED <<fixedVars, progVars, logVars, ioVars, childVars, sigVars,
                   ttyVars, endVars>>

\* line 292
SetStatus ==
    /\ pc = "set_status"
    /\ child_exit_status' = poll_status
    /\ poll_status' = NoStatus
    /\ pc' = "break"
    /\ UNCHANGED <<fixedVars, old_tty, bufVars, r, data, ret, k, logVars, ioVars,
                   childVars, sigVars, ttyVars, endVars>>

\* line 293
Break ==
    /\ pc = "break"
    /\ pc' = "finally"
    /\ UNCHANGED <<fixedVars, progVars, logVars, ioVars, childVars, sigVars,
                   ttyVars, endVars>>

(***************************************************************************)
(* KeyboardInterrupt, raised while the body of the try statement of lines  *)
(* 222-293 runs, and its handler, lines 295-297.                           *)
(***************************************************************************)
LoopBody ==
    {"select", "in_read", "in_write", "in_buffer", "in_process", "in_track",
     "in_clear", "in_lines", "in_reset", "in_flush", "out_read", "out_write",
     "out_buffer", "out_lines", "out_flush", "blocked", "poll", "set_status",
     "break"}

Interrupt ==
    /\ pc \in LoopBody
    /\ interrupts < MaxInterrupts
    /\ interrupts' = interrupts + 1
    /\ pc' = "handler"
    /\ DeadLocals
    /\ UNCHANGED <<fixedVars, old_tty, child_exit_status, bufVars, logVars, ioVars,
                   childVars, winch_errors, ttyVars, endVars>>

(***************************************************************************)
(* SIGWINCH: handle_winch, lines 212-216, runs between two instructions of *)
(* the loop.  When it returns the relay goes on where it was; when it      *)
(* raises (stty size printed nothing: ValueError at line 214; the ioctl    *)
(* failed: OSError at line 215) the exception is caught at line 298: break.*)
(* With standard input not a terminal the handler does nothing.            *)
(***************************************************************************)
WinchFails ==
    /\ pc \in LoopBody
    /\ isatty
    /\ winch_errors' = winch_errors + 1
    /\ pc' = "finally"
    /\ DeadLocals
    /\ UNCHANGED <<fixedVars, old_tty, child_exit_status, bufVars, logVars, ioVars,
                   childVars, interrupts, ttyVars, endVars>>

\* line 297 as a break: the handler leaves the loop
AfterKill_Break == "finally"

\* where line 297 leads
AfterKill == "select"

\* lines 296-297, the pid is the child's (running or not yet waited for)
HandlerKill ==
    /\ pc = "handler"
    /\ child # "reaped"
    /\ sigints' = sigints + 1
    /\ pc' = AfterKill
    /\ UNCHANGED <<fixedVars, progVars, logVars, ioVars, child, child_status,
                   stray_kills, sigVars, ttyVars, endVars>>

\* line 296 after the child was reaped: os.kill raises ProcessLookupError, which
\* leaves the loop through the finally clause, or the pid has been reused and
\* the signal goes to a stranger
HandlerKillReaped ==
    /\ pc = "handler"
    /\ child = "reaped"
    /\ stray_kills' = stray_kills + 1
    /\ pc' \in {"finally", AfterKill}
    /\ UNCHANGED <<fixedVars, progVars, logVars, ioVars, child, child_status,
                   sigints, sigVars, ttyVars, endVars>>

(***************************************************************************)
(* The finally clause, lines 301-322.                                      *)
(***************************************************************************)
\* the restoration done only when the loop recorded the child's status
RestoreNeeded_AfterLoopOnly == old_tty # "None" /\ child_exit_status # NoStatus

\* line 303
RestoreNeeded == old_tty # "None"

\* lines 303-304
Restore ==
    /\ pc = "finally"
    /\ IF RestoreNeeded
       THEN tty_mode' = "orig" /\ restores' = restores + 1
       ELSE UNCHANGED ttyVars
    /\ pc' = "close"
    /\ UNCHANGED <<fixedVars, progVars, logVars, ioVars, childVars, sigVars,
                   endVars>>

\* line 305
CloseMaster ==
    /\ pc = "close"
    /\ master_open' = FALSE
    /\ pc' = "wait"
    /\ UNCHANGED <<fixedVars, progVars, logVars, ioVars, childVars, sigVars,
                   ttyVars, blocking_waits, process_exit>>

\* line 308
WaitNeeded == child_exit_status = NoStatus

\* line 308, status already recorded
WaitSkipped ==
    /\ pc = "wait"
    /\ ~WaitNeeded
    /\ pc' = "flush_input"
    /\ UNCHANGED <<fixedVars, progVars, logVars, ioVars, childVars, sigVars,
                   ttyVars, endVars>>

\* lines 308-309: os.waitpid(pid, 0) returns once the child has exited
WaitChild ==
    /\ pc = "wait"
    /\ WaitNeeded
    /\ child = "zombie"
    /\ child' = "reaped"
    /\ child_status' \in ExitStatuses
    /\ child_exit_status' = child_status'
    /\ blocking_waits' = blocking_waits + 1
    /\ pc' = "flush_input"
    /\ UNCHANGED <<fixedVars, old_tty, bufVars, localVars, logVars, ioVars, sigints,
                   stray_kills, sigVars, ttyVars, master_open, process_exit>>

\* line 309 on a child already reaped: ChildProcessError leaves main() and the
\* with statement closes the log
WaitFails ==
    /\ pc = "wait"
    /\ WaitNeeded
    /\ child = "reaped"
    /\ blocking_waits' = blocking_waits + 1
    /\ flushed' = Len(log)
    /\ process_exit' = UncaughtExceptionCode
    /\ pc' = "crashed"
    /\ UNCHANGED <<fixedVars, progVars, log, footer, ioVars, childVars, sigVars,
                   ttyVars, master_open>>

\* lines 314-315
ResidualInput(buf) ==
    IF PyStrip(buf) # <<>> THEN <<Entry("USER INPUT", buf, buf)>> ELSE <<>>

FlushInput ==
    /\ pc = "flush_input"
    /\ log' = log \o ResidualInput(input_buffer)
    /\ pc' = "flush_output"
    /\ UNCHANGED <<fixedVars, progVars, flushed, footer, ioVars, childVars,
                   sigVars, ttyVars, endVars>>

\* lines 316-317
ResidualOutput(buf, current_input) ==
    IF PyStrip(buf) # <<>> THEN <<Entry("OUTPUT", buf, buf)>> ELSE <<>>

FlushOutput ==
    /\ pc = "flush_output"
    /\ log' = log \o ResidualOutput(output_buffer, current_input_line)
    /\ pc' = "footer"
    /\ UNCHANGED <<fixedVars, progVars, flushed, footer, ioVars, childVars,
                   sigVars, ttyVars, endVars>>

\* line 311
exit_code == ExitCodeOf(child_exit_status)

\* lines 319-320
WriteFooter ==
    /\ pc = "footer"
    /\ footer' = Append(footer, exit_code)
    /\ pc' = "exit"
    /\ UNCHANGED <<fixedVars, progVars, log, flushed, ioVars, childVars, sigVars,
                   ttyVars, endVars>>

\* line 322: sys.exit(exit_code); the with statement closes the log
Exit ==
    /\ pc = "exit"
    /\ process_exit' = exit_code
    /\ flushed' = Len(log)
    /\ pc' = "done"
    /\ UNCHANGED <<fixedVars, progVars, log, footer, ioVars, childVars, sigVars,
                   ttyVars, master_open, blocking_waits>>

Next ==
    \/ SaveTty \/ SetRaw \/ ChildExit
    \/ Select \/ InRead \/ InWrite \/ InWriteFails \/ InBuffer \/ InHold
    \/ InProcess \/ InTrack \/ InClear \/ InLines \/ InReset \/ InFlush
    \/ OutRead \/ OutReadEnds \/ OutReadBlocks \/ OutReadResumes
    \/ OutWrite \/ OutBuffer \/ OutLines \/ OutFlush
    \/ PollRunning \/ PollExited \/ PollFails \/ SetStatus \/ Break
    \/ Interrupt \/ HandlerKill \/ HandlerKillReaped \/ WinchFails
    \/ Restore \/ CloseMaster \/ WaitSkipped \/ WaitChild \/ WaitFails
    \/ FlushInput \/ FlushOutput \/ WriteFooter \/ Exit

Spec == Init /\ [][Next]_vars

(***************************************************************************)
(* The input path as a function: one iteration of lines 231-279 that no    *)
(* interrupt cuts short, on st = [raw, inbuf, cur, log].                   *)
(***************************************************************************)
RECURSIVE InputEntriesFrom(_, _)
InputEntriesFrom(buf, n) ==
    IF n > NumTerms(buf) THEN <<>>
    ELSE InputLineEntries(buf, n) \o InputEntriesFrom(buf, n + 1)

FeedInput(st, decoded) ==
    LET raw == st.raw \o decoded
        clean_input == CleanInput(raw)
        buf == st.inbuf \o clean_input
    IN IF HeldBack(raw) THEN [st EXCEPT !.raw = raw]
       ELSE IF HasTerminator(decoded)
       THEN [raw |-> <<>>, inbuf |-> LastLine(buf), cur |-> LastLine(buf),
             log |-> st.log \o InputEntriesFrom(buf, 1)]
       ELSE [raw |-> <<>>, inbuf |-> buf, cur |-> st.cur \o clean_input,
             log |-> st.log]

FeedStart == [raw |-> <<>>, inbuf |-> <<>>, cur |-> <<>>, log |-> <<>>]

(***************************************************************************)
(* SpecFeed: one relay is fed prefix \o seq in a single read, another is   *)
(* fed it in two reads, cut inside seq.                                    *)
(***************************************************************************)
\* ESC [ A, ESC [ 3 1 m, ESC [ ? 2 5 h, ESC ] 0 ; t BEL, ESC O A, ESC ( B,
\* ESC c, ESC ^ x ESC \
RecognizedSequences ==
    {<<27, 91, 65>>, <<27, 91, 51, 49, 109>>, <<27, 91, 63, 50, 53, 104>>,
     <<27, 93, 48, 59, 116, 7>>, <<27, 79, 65>>, <<27, 40, 66>>, <<27, 99>>,
     <<27, 94, 120, 27, 92>>}
\* nothing, "a", "a\r"
FeedPrefixes == {<<>>, <<97>>, <<97, 13>>}

InitFeed ==
    /\ InitRelay
    /\ isatty = TRUE
    /\ \E prefix \in FeedPrefixes, seq \in RecognizedSequences :
          \E cut \in 1..(Len(seq) - 1) :
             feed = [phase |-> "start", prefix |-> prefix, seq |-> seq, cut |-> cut,
                     whole |-> FeedStart, split |-> FeedStart]

relayVars == <<pc, isatty, progVars, logVars, ioVars, childVars, sigVars,
               ttyVars, endVars>>

FeedWhole ==
    /\ feed.phase = "start"
    /\ feed' = [feed EXCEPT
                  !.phase = "whole",
                  !.whole = FeedInput(@, Stamped(Decode(feed.prefix \o feed.seq), 1))]
    /\ UNCHANGED relayVars

FeedFirst ==
    /\ feed.phase = "whole"
    /\ feed' = [feed EXCEPT
                  !.phase = "first",
                  !.split = FeedInput(@, Stamped(Decode(feed.prefix
                                \o SubSeq(feed.seq, 1, feed.cut)), 1))]
    /\ UNCHANGED relayVars

FeedSecond ==
    /\ feed.phase = "first"
    /\ feed' = [feed EXCEPT
                  !.phase = "done",
                  !.split = FeedInput(@, Stamped(Decode(
                                SubSeq(feed.seq, feed.cut + 1, Len(feed.seq))), 2))]
    /\ UNCHANGED relayVars

\* the user presses Enter: both relays read b'\r'
FeedEnter ==
    /\ feed.phase = "done"
    /\ feed' = [feed EXCEPT
                  !.phase = "entered",
                  !.whole = FeedInput(@, Stamped(Decode(<<CR>>), 3)),
                  !.split = FeedInput(@, Stamped(Decode(<<CR>>), 3))]
    /\ UNCHANGED relayVars

NextFeed == FeedWhole \/ FeedFirst \/ FeedSecond \/ FeedEnter

SpecFeed == InitFeed /\ [][NextFeed]_vars

(***************************************************************************)
(* The output path as a function: lines 100-110 for one chunk, on          *)
(* st = [outbuf, log].                                                     *)
(***************************************************************************)
RECURSIVE OutputEntriesFrom(_, _, _)
OutputEntriesFrom(buf, n, current_input) ==
    IF n > NumTerms(buf) THEN <<>>
    ELSE OutputLineEntries(buf, n, current_input)
            \o OutputEntriesFrom(buf, n + 1, current_input)

FeedOutput(st, decoded, current_input) ==
    LET buf == st.outbuf \o CleanOutput(decoded)
    IN IF HasTerminator(buf)
       THEN [outbuf |-> LastLine(buf),
             log |-> st.log \o OutputEntriesFrom(buf, 1, current_input)]
       ELSE [outbuf |-> buf, log |-> st.log]

OutputStart == [outbuf |-> <<>>, log |-> <<>>]

(***************************************************************************)
(* SpecLines: one relay reads an output stream in a single read, another   *)
(* reads it in two, cut anywhere; nothing is typed meanwhile.              *)
(***************************************************************************)
MaxStream == 4
\* a, space, LF, CR, and the two bytes of U+00E9 in UTF-8
StreamBytes == {97, SPACE, LF, CR, 195, 169}
RECURSIVE Streams(_)
Streams(n) ==
    IF n = 0 THEN {<<>>}
    ELSE LET shorter == Streams(n - 1)
         IN shorter \cup {Append(t, b) : t \in {u \in shorter : Len(u) = n - 1},
                                          b \in StreamBytes}

InitLines ==
    /\ InitRelay
    /\ isatty = TRUE
    /\ \E stream \in Streams(MaxStream) :
          \E cut \in 1..(Len(stream) - 1) :
             feed = [phase |-> "stream", stream |-> stream, cut |-> cut,
                     whole |-> OutputStart, split |-> OutputStart]

LinesWhole ==
    /\ feed.phase = "stream"
    /\ feed' = [feed EXCEPT
                  !.phase = "stream_whole",
                  !.whole = FeedOutput(@, Stamped(Decode(feed.stream), 1), <<>>)]
    /\ UNCHANGED relayVars

LinesFirst ==
    /\ feed.phase = "stream_whole"
    /\ feed' = [feed EXCEPT
                  !.phase = "stream_first",
                  !.split = FeedOutput(@, Stamped(Decode(
                                SubSeq(feed.stream, 1, feed.cut)), 1), <<>>)]
    /\ UNCHANGED relayVars

LinesSecond ==
    /\ feed.phase = "stream_first"
    /\ feed' = [feed EXCEPT
                  !.phase = "stream_done",
                  !.split = FeedOutput(@, Stamped(Decode(
                                SubSeq(feed.stream, feed.cut + 1, Len(feed.stream))), 2),
                                <<>>)]
    /\ UNCHANGED relayVars

NextLines == LinesWhole \/ LinesFirst \/ LinesSecond

SpecLines == InitLines /\ [][NextLines]_vars

(***************************************************************************)
(* Properties.                                                             *)
(***************************************************************************)
RECURSIVE Flat(_)
Flat(chunks) == IF chunks = <<>> THEN <<>> ELSE Head(chunks) \o Flat(Tail(chunks))
IsPrefix(s, t) == Len(s) <= Len(t) /\ SubSeq(t, 1, Len(s)) = s
Range(s) == {s[i] : i \in 1..Len(s)}
EntryTexts(entries) == [i \in 1..Len(entries) |-> <<entries[i].tag, entries[i].text>>]
Teardown == {"finally", "close", "wait", "flush_input", "flush_output", "footer", "exit"}
Terminated == {"done", "crashed"}

\* C1: every chunk read from standard input has been written to the pty master,
\* and every chunk read from the pty master to standard output, unchanged and
\* in read order, by the time the relay does anything else with it: the only
\* moment a chunk is read and not yet forwarded is between its read and its
\* write, a write the operating system refused aside
C1_ForwardedVerbatimFirst ==
    /\ pc # "in_write" /\ write_errors = 0 => to_master = stdin_read
    /\ pc # "out_write" => to_stdout = master_read

\* what the pty's line discipline echoes for the bytes written to the master:
\* each character, Enter as CR LF, ESC as ^[
TtyEchoChar(b) == IF b = CR THEN <<CR, LF>> ELSE IF b = ESC THEN <<94, 91>> ELSE <<b>>
RECURSIVE TtyEcho(_)
TtyEcho(bytes) ==
    IF bytes = <<>> THEN <<>> ELSE TtyEchoChar(Head(bytes)) \o TtyEcho(Tail(bytes))
OutputIsEcho == IsPrefix(Flat(to_stdout), TtyEcho(Flat(to_master)))

\* C2: when all the child's terminal has sent back is the echo of what the user
\* typed, a line the user typed is not in the transcript both as a [USER INPUT]
\* entry and as an [OUTPUT] entry made of bytes read after the typed ones
C2_EchoedLineLoggedOnce ==
    OutputIsEcho =>
        \A i, j \in 1..Len(log) :
            ~(/\ log[i].tag = "USER INPUT"
              /\ log[j].tag = "OUTPUT"
              /\ log[j].first > log[i].last
              /\ PyStrip(Lit(log[j].text)) = PyStrip(Lit(log[i].text)))

\* C3: every [OUTPUT] entry, the residual one of the teardown included, is
\* written with a text that is_echo_of_input does not classify as an echo of
\* the current input line
C3_NoEchoEmitted ==
    [][\A i \in (Len(log) + 1)..Len(log') :
          log'[i].tag = "OUTPUT" =>
              ~is_echo_of_input(Lit(log'[i].text), current_input_line)]_vars

\* C4: if every byte of entry B was read before any byte of entry A, then A is
\* not written before B
C4_ChronologicalOrder ==
    \A i, j \in 1..Len(log) : i < j => ~(log[j].last < log[i].first)

\* C5: with standard input a terminal the saved mode is re-applied exactly once,
\* when the loop has stopped and before the blocking wait and the footer; the
\* terminal is raw while the loop runs; with standard input not a terminal the
\* mode is neither changed nor restored
C5_TerminalRestoredOnce ==
    /\ isatty =>
          /\ pc \in LoopBody \cup {"handler", "finally"} => tty_mode = "raw" /\ restores = 0
          /\ pc \in (Teardown \ {"finally"}) \cup Terminated =>
                tty_mode = "orig" /\ restores = 1
          /\ blocking_waits > 0 \/ footer # <<>> => restores = 1
    /\ ~isatty => tty_mode = "orig" /\ restores = 0 /\ old_tty = "None"

\* C5 witness: the loop was left by an exception raised in the interrupt
\* handler and the terminal mode is back
C5_Witness == pc = "crashed" /\ isatty /\ restores = 1 /\ tty_mode = "orig"

\* C6: however the loop was left, when main() ends the pty master is closed,
\* the child's exit status is known and the footer was written exactly once
C6_TeardownCompletes ==
    pc \in Terminated =>
        /\ ~master_open
        /\ child_exit_status # NoStatus
        /\ Len(footer) = 1

\* C7: the process ends with the exit code the child's wait status gives
\* (its exit status, or 1 when a signal killed it), and the footer shows it
C7_ExitCodeMirrorsChild ==
    process_exit # NoStatus =>
        /\ process_exit = ExitCodeOf(child_status)
        /\ \A i \in 1..Len(footer) : footer[i] = process_exit

\* C8: no [OUTPUT] entry contains an ESC character
C8_OutputAnsiFree ==
    \A i \in 1..Len(log) : log[i].tag = "OUTPUT" => ESC \notin Range(log[i].text)

\* C9: an escape sequence fed in two reads leaves the same input line buffer
\* and the same [USER INPUT] entries as the same bytes fed in one read
C9_SplitEqualsWhole ==
    feed.phase = "done" =>
        /\ Chars(feed.split.inbuf) = Chars(feed.whole.inbuf)
        /\ EntryTexts(feed.split.log) = EntryTexts(feed.whole.log)

LeavesLoop == pc \in LoopBody \cup {"handler"} /\ pc' = "finally"
\* line 293 after the poll of line 287 reported the exit and the drain ended
ByChildExit == pc = "break" /\ child_exit_status # NoStatus /\ winch_errors' = winch_errors
\* line 284: the pty read returned nothing or failed
ByEndOfStream ==
    pc = "out_read" /\ master_read' = master_read /\ winch_errors' = winch_errors
\* line 299, or an exception raised by os.kill at line 296
ByException ==
    \/ pc = "in_write" /\ write_errors' = write_errors + 1
    \/ pc = "poll" /\ child = "reaped" /\ winch_errors' = winch_errors
    \/ winch_errors' = winch_errors + 1
    \/ pc = "handler" /\ child = "reaped" /\ stray_kills' = stray_kills + 1

C12_NeverSuspendedInRead == pc # "blocked"
\* C13: whenever the relay enters the readiness wait, every entry written so
\* far is covered by a flush of the log
C13_FlushedAtReadinessWait == pc = "select" => flushed = Len(log)
\* the Up arrow in its CSI and SS3 encodings, and the token the format mode
\* gives it: [UP]
ArrowUpKeys == {<<27, 91, 65>>, <<27, 79, 65>>}
UpToken == <<91, 85, 80, 93>>

\* C14: an Up arrow typed on a line shows as [UP] in a [USER INPUT] entry once
\* the line is entered
C14_KeysLoggedAsTokens ==
    feed.phase = "entered" /\ feed.seq \in ArrowUpKeys =>
        \E i \in 1..Len(feed.whole.log) :
            /\ feed.whole.log[i].tag = "USER INPUT"
            /\ Contains(Lit(feed.whole.log[i].text), Lit(UpToken))
\* C15: an output stream read in two chunks gives the same [OUTPUT] entries,
\* in the same order, and the same residual buffer as the stream read in one
C15_LinesIndependentOfChunking ==
    feed.phase = "stream_done" =>
        /\ EntryTexts(feed.split.log) = EntryTexts(feed.whole.log)
        /\ Chars(feed.split.outbuf) = Chars(feed.whole.outbuf)
\* C16: whenever the relay enters the readiness wait, the raw input buffer is
\* empty or holds a fragment that looks truncated and is shorter than the
\* limit: whatever else was read has been classified and the buffer emptied
C16_RawFragmentBounded ==
    pc = "select" =>
        /\ Len(raw_input_buffer) < RawLimit
        /\ raw_input_buffer # <<>> => is_incomplete_sequence(raw_input_buffer)
\* C17: in a run that no interrupt disturbed, whenever the relay is back at
\* the readiness wait the input line buffer contains no line terminator
C17_InputBufferUnterminated ==
    pc = "select" /\ interrupts = 0 => ~HasTerminator(input_buffer)
\* the characters typed and read that wait in a buffer of the input path:
\* those of the input line buffer, and those of the raw fragment that
\* clean_user_input keeps
PendingInput == Range(input_buffer) \cup Range(CleanInput(raw_input_buffer))
Visible == 33..126
InUserInputEntry(c) ==
    \E i \in 1..Len(log) :
        /\ log[i].tag = "USER INPUT"
        /\ log[i].first <= StampOf(c) /\ StampOf(c) <= log[i].last
        /\ Code(c) \in Range(log[i].text)

\* C18: in a run that no interrupt or exception disturbed, when the footer is
\* about to be written every visible character still waiting in the input
\* line buffer or in the raw fragment buffer is in a [USER INPUT] entry
C18_ResidualInputFlushed ==
    pc = "footer" /\ interrupts = 0 /\ winch_errors = 0 /\ write_errors = 0 =>
        \A c \in PendingInput : Code(c) \in Visible => InUserInputEntry(c)
\* C19: whenever the relay enters the readiness wait or reads pty output, the
\* line tracker used for echo detection equals the input line buffer
C19_TrackerEqualsInputBuffer ==
    pc \in {"select", "out_read"} => Chars(current_input_line) = Chars(input_buffer)
\* the step polls the child (line 287) and the poll raises
PollOfReaped == pc = "poll" /\ pc' = "finally" /\ winch_errors' = winch_errors

\* C20: once the child has been reaped no step waits on its pid, by the
\* blocking wait of the teardown or by the poll of the loop, and no step
\* sends a signal to it
C20_ReapedOnce ==
    [][child = "reaped" =>
          /\ blocking_waits' = blocking_waits
          /\ ~PollOfReaped
          /\ stray_kills' = stray_kills]_vars
====
